---- MODULE Spec2Model ----
(***************************************************************************)
(* Kaprekar routine for 4-digit numerals: kaprekar_all.py (kaprekar_once,  *)
(* is_repdigit, steps_to_kaprekar, compute_all, stats_and_plot, __main__)  *)
(* and the interactive tool kaprekar.py.                                   *)
(*                                                                         *)
(* A Python string is the sequence of its characters' code points:         *)
(* "6174" is <<54, 49, 55, 52>>, '-' is 45, '0'..'9' are 48..57.  sorted() *)
(* orders characters by code point, int() and str() convert between digit  *)
(* sequences and integers, zfill() pads on the left.                       *)
(*                                                                         *)
(* The list counts is kept as the bag of its elements: the program only    *)
(* takes its length, minimum, maximum, mean and histogram, none of which   *)
(* depends on the order of the elements.                                   *)
(***************************************************************************)
EXTENDS Integers, Sequences, FiniteSets, Bags, TLC

VARIABLES
    pc,             \* position of the running program
    \* kaprekar_once / kaprekar: argument, locals and return value
    num_str, largest, smallest, out,
    \* steps_to_kaprekar: arguments, locals, return value
    start_num, max_iter, s, steps, result,
    applications,   \* number of kaprekar_once calls made by the running driver
    \* kaprekar_all.py __main__: compute_all and stats_and_plot
    sanity, n, counts, failures, tested, mx, nums_with_max, warned,
    \* kaprekar.py: the prompt's answer, num, step and what was printed
    input, num, step, printed

onceVars   == <<num_str, largest, smallest, out>>
driverVars == <<start_num, max_iter, s, steps, result, applications>>
batchVars  == <<sanity, n, counts, failures, tested, mx, nums_with_max, warned>>
toolVars   == <<input, num, step, printed>>
vars       == <<pc, onceVars, driverVars, batchVars, toolVars>>

-----------------------------------------------------------------------------
(* Bounds of the model *)

MaxCap      == 8    \* explicit caps max_iter range over -1..MaxCap
MaxInputLen == 5    \* non-numeral prompt answers have at most this many characters
StepBound   == 12   \* the interactive loop is explored up to this many steps

(* Program constants *)

KAPREKAR_CONST == <<54, 49, 55, 52>>    \* "6174"
DefaultMaxIter == 50                    \* steps_to_kaprekar(start_num, max_iter=50)
RangeEnd       == 10000                 \* range(0, 10000)
Width          == 4                     \* zfill(4), len(num) != 4

-----------------------------------------------------------------------------
(* Python built-ins used by the program *)

Minus == 45     \* ord('-')
Plus  == 43     \* ord('+')
Zero  == 48     \* ord('0')
DigitChars == Zero .. (Zero + 9)

Lit(ds) == [i \in DOMAIN ds |-> Zero + ds[i]]   \* Lit(<<3,5,2,4>>) is "3524"

None == [tag |-> "None"]
IntVal(v) == [tag |-> "int", val |-> v]

isdigit(t) == t # <<>> /\ \A i \in DOMAIN t : t[i] \in DigitChars

set(t) == {t[i] : i \in DOMAIN t}

RECURSIVE insort(_, _, _)
insort(c, t, reverse) ==
    IF t = <<>> THEN <<c>>
    ELSE IF (IF reverse THEN c >= Head(t) ELSE c <= Head(t))
         THEN <<c>> \o t
         ELSE <<Head(t)>> \o insort(c, Tail(t), reverse)

RECURSIVE sorted(_, _)
sorted(t, reverse) ==
    IF t = <<>> THEN <<>>
    ELSE insort(Head(t), sorted(Tail(t), reverse), reverse)

RECURSIVE digitsValue(_)
digitsValue(t) ==
    IF t = <<>> THEN 0
    ELSE 10 * digitsValue(SubSeq(t, 1, Len(t) - 1)) + (t[Len(t)] - Zero)

int(t) == IF t[1] = Minus THEN 0 - digitsValue(Tail(t)) ELSE digitsValue(t)

RECURSIVE natStr(_)
natStr(v) ==
    IF v < 10 THEN <<Zero + v>>
    ELSE natStr(v \div 10) \o <<Zero + (v % 10)>>

str(v) == IF v < 0 THEN <<Minus>> \o natStr(0 - v) ELSE natStr(v)

zeros(k) == [i \in 1..k |-> Zero]

zfill(t, width) ==
    IF Len(t) >= width THEN t
    ELSE IF t # <<>> /\ t[1] \in {Minus, Plus}
         THEN <<t[1]>> \o zeros(width - Len(t)) \o Tail(t)
         ELSE zeros(width - Len(t)) \o t

-----------------------------------------------------------------------------
(* kaprekar_all.py: the pure functions *)

\* variant: the descending sort omits reverse=True
KaprekarLargest_ascending(arg) == sorted(zfill(arg, Width), FALSE)

KaprekarLargest(arg) == sorted(zfill(arg, Width), TRUE)
\* variant: the ascending sort also passes reverse=True
KaprekarSmallest_reversed(arg) == sorted(zfill(arg, Width), TRUE)

KaprekarSmallest(arg) == sorted(zfill(arg, Width), FALSE)

\* variant: the difference is not padded back to four characters
kaprekar_once_unpadded(arg) ==
    str(int(KaprekarLargest(arg)) - int(KaprekarSmallest(arg)))

kaprekar_once(arg) ==
    zfill(str(int(KaprekarLargest(arg)) - int(KaprekarSmallest(arg))), Width)

\* variant: compares the number of distinct characters with 0
is_repdigit_empty(arg) == Cardinality(set(zfill(arg, Width))) = 0

is_repdigit(arg) == Cardinality(set(zfill(arg, Width))) = 1

Numeral(v) == zfill(str(v), Width)

Numerals == {Numeral(v) : v \in 0 .. (RangeEnd - 1)}

ZeroNumeral == <<48, 48, 48, 48>>   \* "0000"

-----------------------------------------------------------------------------
(* kaprekar_all.py: steps_to_kaprekar, its while loop one iteration at a time *)

\* variant: the cap comparison is <= instead of <
LoopCond_le(cur, cnt, cap) == cur # KAPREKAR_CONST /\ cnt <= cap

\* variant: the loop stops one iteration before the cap
LoopCond_short(cur, cnt, cap) == cur # KAPREKAR_CONST /\ cnt + 1 < cap

LoopCond(cur, cnt, cap) == cur # KAPREKAR_CONST /\ cnt < cap

LoopExit(cur, cnt) == IF cur = KAPREKAR_CONST THEN IntVal(cnt) ELSE None

RECURSIVE kaprekar_loop(_, _, _)
kaprekar_loop(cur, cnt, cap) ==
    IF LoopCond(cur, cnt, cap)
    THEN LET nxt == kaprekar_once(cur)
         IN  IF nxt = ZeroNumeral THEN None ELSE kaprekar_loop(nxt, cnt + 1, cap)
    ELSE LoopExit(cur, cnt)

\* variant: the counter starts at 1
steps_to_kaprekar_from1(arg, cap) ==
    LET s0 == zfill(arg, Width)
    IN  IF is_repdigit(s0) THEN None ELSE kaprekar_loop(s0, 1, cap)

steps_to_kaprekar(arg, cap) ==
    LET s0 == zfill(arg, Width)
    IN  IF is_repdigit(s0) THEN None ELSE kaprekar_loop(s0, 0, cap)

-----------------------------------------------------------------------------
(* Values of the variables a specification does not use *)

IdleOnce ==
    num_str = <<>> /\ largest = <<>> /\ smallest = <<>> /\ out = <<>>

IdleDriver ==
    /\ start_num = <<>> /\ max_iter = 0 /\ s = <<>> /\ steps = 0
    /\ result = None /\ applications = 0

IdleBatch ==
    /\ sanity = <<>> /\ n = 0 /\ counts = EmptyBag /\ failures = <<>>
    /\ tested = 0 /\ mx = 0 /\ nums_with_max = <<>> /\ warned = FALSE

IdleTool ==
    input = <<>> /\ num = <<>> /\ step = 0 /\ printed = <<>>

-----------------------------------------------------------------------------
(* Before any call: nothing has run *)

Init == pc = "idle" /\ IdleOnce /\ IdleDriver /\ IdleBatch /\ IdleTool

-----------------------------------------------------------------------------
(* SpecOnce: one call of kaprekar_once on any numeral 0000..9999 *)

KaprekarOnce ==
    /\ pc = "idle"
    /\ \E arg \in Numerals :
        /\ num_str' = arg
        /\ largest' = KaprekarLargest(arg)
        /\ smallest' = KaprekarSmallest(arg)
        /\ out' = kaprekar_once(arg)
    /\ pc' = "once_returned"
    /\ UNCHANGED <<driverVars, batchVars, toolVars>>

NextOnce == KaprekarOnce

SpecOnce == Init /\ [][NextOnce]_vars

-----------------------------------------------------------------------------
(* SpecDriver: one call of steps_to_kaprekar(start_num, max_iter) *)

Caps == (-1 .. MaxCap) \cup {DefaultMaxIter}

\* variant: the counter starts at 1
DriverEnter_from1 ==
    /\ pc = "idle"
    /\ \E arg \in Numerals, cap \in Caps :
        /\ start_num' = arg
        /\ max_iter' = cap
    /\ s' = zfill(start_num', Width)
    /\ IF is_repdigit(s')
       THEN result' = None /\ pc' = "returned"
       ELSE result' = result /\ pc' = "while"
    /\ steps' = 1
    /\ UNCHANGED <<applications, onceVars, batchVars, toolVars>>

\* s = str(start_num).zfill(4); if is_repdigit(s): return None; steps = 0
DriverEnter ==
    /\ pc = "idle"
    /\ \E arg \in Numerals, cap \in Caps :
        /\ start_num' = arg
        /\ max_iter' = cap
    /\ s' = zfill(start_num', Width)
    /\ IF is_repdigit(s')
       THEN result' = None /\ pc' = "returned"
       ELSE result' = result /\ pc' = "while"
    /\ steps' = 0
    /\ UNCHANGED <<applications, onceVars, batchVars, toolVars>>

\* one iteration of the while loop, with the in-loop "0000" return
DriverIterate ==
    /\ pc = "while"
    /\ LoopCond(s, steps, max_iter)
    /\ s' = kaprekar_once(s)
    /\ applications' = applications + 1
    /\ steps' = steps + 1
    /\ IF s' = ZeroNumeral
       THEN result' = None /\ pc' = "returned"
       ELSE result' = result /\ pc' = "while"
    /\ UNCHANGED <<start_num, max_iter, onceVars, batchVars, toolVars>>

\* the loop condition is false: return steps if s is the constant, else None
DriverReturn ==
    /\ pc = "while"
    /\ ~LoopCond(s, steps, max_iter)
    /\ result' = LoopExit(s, steps)
    /\ pc' = "returned"
    /\ UNCHANGED <<start_num, max_iter, s, steps, applications, onceVars, batchVars, toolVars>>

NextDriver == DriverEnter \/ DriverIterate \/ DriverReturn

SpecDriver == Init /\ [][NextDriver]_vars

-----------------------------------------------------------------------------
(* SpecBatch: kaprekar_all.py run as a script *)

Max(S) == CHOOSE m \in S : \A x \in S : x <= m

\* _sanity_checks(): each example with its expected and its actual result
MainSanityChecks ==
    /\ pc = "idle"
    /\ sanity' =
        LET examples == << <<Lit(<<3, 5, 2, 4>>), 3>>,
                           <<Lit(<<2, 1, 1, 1>>), 5>>,
                           <<Lit(<<8, 5, 3, 2>>), 1>> >>
        IN  [i \in DOMAIN examples |->
                [s |-> examples[i][1],
                 expected |-> examples[i][2],
                 actual |-> steps_to_kaprekar(examples[i][1], DefaultMaxIter)]]
    /\ n' = 0 /\ counts' = EmptyBag /\ failures' = <<>>
    /\ pc' = "compute_all"
    /\ UNCHANGED <<tested, mx, nums_with_max, warned, onceVars, driverVars, toolVars>>

\* variant: the body of the for loop without the repdigit "continue"
ComputeAllIter_noskip ==
    /\ pc = "compute_all"
    /\ n < RangeEnd
    /\ LET s0 == Numeral(n)
           st == steps_to_kaprekar(s0, DefaultMaxIter)
       IN  IF st = None
           THEN failures' = Append(failures, s0) /\ counts' = counts
           ELSE counts' = counts (+) SetToBag({st.val}) /\ failures' = failures
    /\ n' = n + 1
    /\ UNCHANGED <<pc, sanity, tested, mx, nums_with_max, warned, onceVars, driverVars, toolVars>>

\* compute_all(): the body of the for loop for one n
ComputeAllIter ==
    /\ pc = "compute_all"
    /\ n < RangeEnd
    /\ LET s0 == Numeral(n)
           st == steps_to_kaprekar(s0, DefaultMaxIter)
       IN  IF is_repdigit(s0)
           THEN counts' = counts /\ failures' = failures
           ELSE IF st = None
                THEN failures' = Append(failures, s0) /\ counts' = counts
                ELSE counts' = counts (+) SetToBag({st.val}) /\ failures' = failures
    /\ n' = n + 1
    /\ UNCHANGED <<pc, sanity, tested, mx, nums_with_max, warned, onceVars, driverVars, toolVars>>

\* compute_all(): the range is exhausted, return counts, failures
ComputeAllReturn ==
    /\ pc = "compute_all"
    /\ n = RangeEnd
    /\ pc' = "stats_and_plot"
    /\ UNCHANGED <<batchVars, onceVars, driverVars, toolVars>>

\* stats_and_plot(counts): the count, the maximum and the numerals attaining it
StatsAndPlot ==
    /\ pc = "stats_and_plot"
    /\ IF counts = EmptyBag
       THEN UNCHANGED <<tested, mx, nums_with_max>>
       ELSE /\ tested' = BagCardinality(counts)
            /\ mx' = Max(BagToSet(counts))
            /\ nums_with_max' =
                SelectSeq([i \in 1..RangeEnd |-> Numeral(i - 1)],
                          LAMBDA t : /\ ~is_repdigit(t)
                                     /\ steps_to_kaprekar(t, DefaultMaxIter) = IntVal(mx'))
    /\ pc' = "warn"
    /\ UNCHANGED <<sanity, n, counts, failures, warned, onceVars, driverVars, toolVars>>

\* if failures: print the warning
MainWarn ==
    /\ pc = "warn"
    /\ warned' = (failures # <<>>)
    /\ pc' = "done"
    /\ UNCHANGED <<sanity, n, counts, failures, tested, mx, nums_with_max, onceVars, driverVars, toolVars>>

NextBatch ==
    MainSanityChecks \/ ComputeAllIter \/ ComputeAllReturn \/ StatsAndPlot \/ MainWarn

SpecBatch == Init /\ [][NextBatch]_vars

-----------------------------------------------------------------------------
(* SpecTool: kaprekar.py, the interactive single-number tool *)

\* what can be typed at the prompt: every numeral, and short strings over '-', '1', 'a'
OtherChars == {Minus, Zero + 1, 97}

Inputs ==
    Numerals \cup UNION {[1..k -> OtherChars] : k \in 0..MaxInputLen}

\* kaprekar(num): the difference of the two sorted permutations
kaprekar(arg) == int(sorted(arg, TRUE)) - int(sorted(arg, FALSE))

\* num = input(...); validation; step = 0
ToolPrompt ==
    /\ pc = "idle"
    /\ \E answer \in Inputs : input' = answer
    /\ num' = input'
    /\ IF Len(num') # Width \/ Cardinality(set(num')) = 1 \/ ~isdigit(num')
       THEN pc' = "exit"
       ELSE pc' = "tool_while"
    /\ step' = 0
    /\ UNCHANGED <<printed, onceVars, driverVars, batchVars>>

\* variant: the next number is not padded back to four characters
ToolIterate_unpadded ==
    /\ pc = "tool_while"
    /\ num # KAPREKAR_CONST
    /\ step < StepBound
    /\ step' = step + 1
    /\ num' = str(kaprekar(num))
    /\ printed' = Append(printed,
            [step |-> step', largest |-> sorted(num, TRUE),
             smallest |-> sorted(num, FALSE), difference |-> kaprekar(num),
             next |-> num'])
    /\ UNCHANGED <<pc, input, onceVars, driverVars, batchVars>>

\* one iteration of "while num != '6174'", with what it prints
ToolIterate ==
    /\ pc = "tool_while"
    /\ num # KAPREKAR_CONST
    /\ step < StepBound
    /\ step' = step + 1
    /\ num' = zfill(str(kaprekar(num)), Width)
    /\ printed' = Append(printed,
            [step |-> step', largest |-> sorted(num, TRUE),
             smallest |-> sorted(num, FALSE), difference |-> kaprekar(num),
             next |-> num'])
    /\ UNCHANGED <<pc, input, onceVars, driverVars, batchVars>>

\* the loop condition is false: report the step count
ToolReached ==
    /\ pc = "tool_while"
    /\ num = KAPREKAR_CONST
    /\ pc' = "reached"
    /\ UNCHANGED <<toolVars, onceVars, driverVars, batchVars>>

NextTool == ToolPrompt \/ ToolIterate \/ ToolReached

SpecTool == Init /\ [][NextTool]_vars

-----------------------------------------------------------------------------
(* Vocabulary of the properties *)

HitHorizon == 10    \* trajectories are followed for this many applications

RepdigitNumerals == {[i \in 1..Width |-> Zero + d] : d \in 0..9}

RECURSIVE Trajectory(_, _)
Trajectory(t, k) ==
    IF k = 0 THEN <<t>> ELSE <<t>> \o Trajectory(kaprekar_once(t), k - 1)

\* m such that the trajectory first equals "6174" after m applications and
\* never equals "0000" before that
FirstHits(tr) ==
    {m \in 0 .. (Len(tr) - 1) :
        /\ tr[m + 1] = KAPREKAR_CONST
        /\ \A j \in 0 .. (m - 1) : tr[j + 1] \notin {KAPREKAR_CONST, ZeroNumeral}}

-----------------------------------------------------------------------------
(* Properties of kaprekar_once (SpecOnce) *)

\* C4: for every numeral 0000..9999, repdigits included, kaprekar_once returns
\* exactly 4 digit characters whose value is in [0, 9999], and the descending
\* permutation is never smaller than the ascending one.
C4_OnceReturnsNumeral ==
    pc = "once_returned" =>
        /\ Len(out) = 4
        /\ isdigit(out)
        /\ int(out) \in 0..9999
        /\ int(largest) >= int(smallest)

C4_Witness ==
    /\ pc = "once_returned"
    /\ num_str = Lit(<<2, 1, 1, 1>>)
    /\ out = Lit(<<0, 9, 9, 9>>)

\* C5: among non-repdigit numerals, kaprekar_once(n) = n exactly when n is "6174".
C5_UniqueFixedPoint ==
    (pc = "once_returned" /\ num_str \notin RepdigitNumerals) =>
        ((out = num_str) <=> (num_str = KAPREKAR_CONST))

C5_Witness ==
    /\ pc = "once_returned"
    /\ num_str = KAPREKAR_CONST
    /\ out = KAPREKAR_CONST

-----------------------------------------------------------------------------
(* Properties of steps_to_kaprekar (SpecDriver) *)

\* C2: for every non-repdigit numeral and every cap max_iter >= 0 the call
\* returns, having applied kaprekar_once at most max_iter times: no step takes
\* the number of applications above the cap, and every step taken inside the
\* loop either returns or makes one more application, so the loop runs at
\* most max_iter times.
C2_TerminatesWithinCap ==
    [][(start_num' \notin RepdigitNumerals /\ max_iter' >= 0) =>
            /\ applications' <= max_iter'
            /\ pc = "while" =>
                \/ pc' = "returned"
                \/ pc' = "while" /\ applications' = applications + 1]_vars

C2_Witness ==
    /\ pc = "returned"
    /\ start_num \notin RepdigitNumerals
    /\ max_iter = 3
    /\ applications = 3
    /\ result = None

\* C3: with the default cap, "3524" takes 3 steps, "2111" takes 5, "8532" takes 1.
C3_Fixtures ==
    (pc = "returned" /\ max_iter = DefaultMaxIter) =>
        /\ start_num = Lit(<<3, 5, 2, 4>>) => result = IntVal(3)
        /\ start_num = Lit(<<2, 1, 1, 1>>) => result = IntVal(5)
        /\ start_num = Lit(<<8, 5, 3, 2>>) => result = IntVal(1)

C3_Witness ==
    /\ pc = "returned"
    /\ max_iter = DefaultMaxIter
    /\ start_num = Lit(<<2, 1, 1, 1>>)
    /\ result = IntVal(5)

\* C6: for each of the 10 repdigits and every cap, the call returns None
\* without entering the loop and without applying kaprekar_once.
C6_RepdigitReturnsNone ==
    (pc # "idle" /\ start_num \in RepdigitNumerals) =>
        /\ result = None
        /\ applications = 0
        /\ pc = "returned"

C6_Witness ==
    /\ pc = "returned"
    /\ start_num = Lit(<<7, 7, 7, 7>>)
    /\ max_iter = DefaultMaxIter
    /\ result = None

\* C9: for a non-repdigit numeral whose trajectory first equals "6174" after m
\* applications, never "0000" before, and a cap k >= 0, the call returns m
\* when m <= k and None when m > k.
C9_CapInclusive ==
    (pc = "returned" /\ start_num \notin RepdigitNumerals /\ max_iter >= 0) =>
        \A m \in FirstHits(Trajectory(start_num, HitHorizon)) :
            result = IF m <= max_iter THEN IntVal(m) ELSE None

C9_Witness ==
    /\ pc = "returned"
    /\ max_iter = 7
    /\ 7 \in FirstHits(Trajectory(start_num, HitHorizon))
    /\ result = IntVal(7)

-----------------------------------------------------------------------------
(* Properties of the batch run (SpecBatch) *)

RepdigitsBelow(k) == Cardinality({r \in RepdigitNumerals : int(r) < k})

\* C1: compute_all partitions the analyzable domain: each non-repdigit numeral
\* enumerated so far contributed exactly one entry to counts or failures, no
\* repdigit contributed, and after the enumeration the two lists hold 9990 entries.
C1_Partition ==
    pc # "idle" =>
        /\ BagCardinality(counts) + Len(failures) = n - RepdigitsBelow(n)
        /\ pc # "compute_all" => BagCardinality(counts) + Len(failures) = 9990

C1_Witness ==
    /\ pc = "done"
    /\ n = RangeEnd
    /\ BagCardinality(counts) + Len(failures) = 9990

\* C7 as stated: some non-repdigit numeral collapses to "0000" during iteration
\* and compute_all places it in failures.
C7_SomeNumeralCollapses ==
    pc = "done" => failures # <<>>

\* C7 amended: no non-repdigit numeral reaches "0000" within the default cap,
\* so compute_all never places a numeral in failures and no warning is printed.
C7_NoNumeralCollapses ==
    /\ failures = <<>>
    /\ ~warned
    /\ (pc = "compute_all" /\ n > 0 /\ Numeral(n - 1) \notin RepdigitNumerals) =>
            ZeroNumeral \notin set(Trajectory(Numeral(n - 1), DefaultMaxIter))

C7_Witness ==
    /\ pc = "done"
    /\ failures = <<>>
    /\ BagCardinality(counts) = 9990
    /\ ~warned

\* C8: every step count compute_all records is at most 7, and the maximum that
\* stats_and_plot reports is exactly 7, attained by at least one numeral.
C8_WorstCaseSeven ==
    /\ \A c \in BagToSet(counts) : c <= 7
    /\ pc \in {"warn", "done"} =>
        /\ mx = 7
        /\ nums_with_max # <<>>
        /\ tested = 9990

C8_Witness ==
    /\ pc = "done"
    /\ mx = 7
    /\ Len(nums_with_max) = 2184

-----------------------------------------------------------------------------
(* Properties of the interactive tool (SpecTool) *)

====
